---- MODULE Spec2Model ----
(***************************************************************************)
(* Model of change_authors.py: commit_callback(commit), the commit         *)
(* callback handed to a history-rewriting driver.  A commit record is a    *)
(* Python object, modelled as a function from the names of the attributes  *)
(* it has to their values; a value carries its Python type, so that        *)
(* `x == b"..."` is the type-aware, byte-exact comparison of the language. *)
(* Each attribute read and each attribute write of the callback is one     *)
(* step, so that calls on several records can be interleaved.              *)
(***************************************************************************)
EXTENDS Naturals, FiniteSets, Sequences, TLC

VARIABLES commits, pc, entry, returned

vars == <<commits, pc, entry, returned>>

\* Number of commit records the driver holds in SpecDriver.
NumCommits == 2

-----------------------------------------------------------------------------
(* Python values *)

Bytes(s) == [t |-> "bytes", v |-> s]
Str(s) == [t |-> "str", v |-> s]
None == [t |-> "none", v |-> ""]

\* The four byte literals of the callback.
LegacyEmail == "andrew@caramel-code.com"
LegacyName == "Andrew Hewitt"
NewEmail == "gigaelk@gmail.com"
NewName == "GigaElk"

\* `value == b"literal"': true only of a bytes object with the same bytes.
BytesEq(value, literal) == value.t = "bytes" /\ value.v = literal

\* `commit.attr = b"literal"': binds the attribute, creating it when the
\* object does not have it, and touches no other attribute.
SetAttr(commit, attr, literal) ==
    [a \in (DOMAIN commit) \cup {attr} |->
        IF a = attr THEN Bytes(literal) ELSE commit[a]]

\* One operand of an `if ... and ...' condition: reading an attribute the
\* object does not have raises AttributeError; otherwise control goes to
\* `yes' when the comparison is true and to `no' (short circuit) when not.
Test(commit, attr, literal, yes, no) ==
    [pc |-> IF attr \notin DOMAIN commit THEN "fault"
            ELSE IF BytesEq(commit[attr], literal) THEN yes ELSE no,
     commit |-> commit]

-----------------------------------------------------------------------------
(* The statements of commit_callback, by source line.  Each maps the       *)
(* record to the next control point and the record it leaves.              *)

Line4NameFirst(commit) ==
    IF "author_name" \notin DOMAIN commit
    THEN [pc |-> "fault", commit |-> commit]
    ELSE [pc |-> IF "author_email" \notin DOMAIN commit THEN "fault"
                 ELSE IF BytesEq(commit["author_email"], "andrew@caramel-code.com")
                      THEN "L5" ELSE "L10",
          commit |-> commit]
Line4(commit) == Test(commit, "author_email", LegacyEmail, "L5", "L10")

Line5EmailOnly(commit) ==
    [pc |-> IF "author_name" \notin DOMAIN commit THEN "fault" ELSE "L6",
     commit |-> commit]
Line5(commit) == Test(commit, "author_name", LegacyName, "L6", "L10")

Line6(commit) ==
    [pc |-> "L7", commit |-> SetAttr(commit, "author_email", NewEmail)]

Line7Skipped(commit) == [pc |-> "L10", commit |-> commit]
Line7Elif(commit) ==
    [pc |-> "done", commit |-> SetAttr(commit, "author_name", "GigaElk")]
Line7(commit) ==
    [pc |-> "L10", commit |-> SetAttr(commit, "author_name", NewName)]

Line10Author(commit) ==
    [pc |-> IF "author_email" \notin DOMAIN commit THEN "fault"
            ELSE IF commit["author_email"] = Bytes("andrew@caramel-code.com")
                 THEN "L11" ELSE "done",
     commit |-> commit]
Line10(commit) == Test(commit, "committer_email", LegacyEmail, "L11", "done")

Line11(commit) == Test(commit, "committer_name", LegacyName, "L12", "done")

Line12Typo(commit) ==
    [pc |-> "L13",
     commit |-> SetAttr(commit, "commiter_email", "gigaelk@gmail.com")]
Line12(commit) ==
    [pc |-> "L13", commit |-> SetAttr(commit, "committer_email", NewEmail)]

Line13Skipped(commit) == [pc |-> "done", commit |-> commit]
Line13(commit) ==
    [pc |-> "done", commit |-> SetAttr(commit, "committer_name", NewName)]

Lines == {"L4", "L5", "L6", "L7", "L10", "L11", "L12", "L13"}

Statement(line, commit) ==
    CASE line = "L4" -> Line4(commit)
      [] line = "L5" -> Line5(commit)
      [] line = "L6" -> Line6(commit)
      [] line = "L7" -> Line7(commit)
      [] line = "L10" -> Line10(commit)
      [] line = "L11" -> Line11(commit)
      [] line = "L12" -> Line12(commit)
      [] line = "L13" -> Line13(commit)

\* The whole call, run alone from `line': the control point it ends at
\* ("done" or "fault") and the record it leaves.
RECURSIVE RunFrom(_, _)
RunFrom(line, commit) ==
    IF line \notin Lines THEN [pc |-> line, commit |-> commit]
    ELSE LET s == Statement(line, commit) IN RunFrom(s.pc, s.commit)

commit_callback(commit) == RunFrom("L4", commit)

-----------------------------------------------------------------------------
(* The records the driver passes *)

Absent == [t |-> "absent", v |-> ""]

NameInputs ==
    {Bytes("Andrew Hewitt"), Bytes("andrew hewitt"), Bytes("Jane Doe"),
     Bytes("GigaElk"), Bytes(""), Str("Andrew Hewitt"), None, Absent}

EmailInputs ==
    {Bytes("andrew@caramel-code.com"), Bytes("old2@caramel-code.com"),
     Bytes("gigaelk@gmail.com"), Bytes(""), Str("andrew@caramel-code.com"),
     None, Absent}

MessageInputs == {Bytes("Initial commit"), Bytes("Fix login")}

MkCommit(an, ae, cn, ce, msg) ==
    LET full == [author_name |-> an, author_email |-> ae,
                 committer_name |-> cn, committer_email |-> ce,
                 message |-> msg, author_date |-> Bytes("1700000000 +0000"),
                 parents |-> Bytes("p0"), tree |-> Bytes("t0")]
    IN [a \in {b \in DOMAIN full : full[b] # Absent} |-> full[a]]

InputCommits ==
    {MkCommit(an, ae, cn, ce, msg) :
        an \in NameInputs, ae \in EmailInputs,
        cn \in NameInputs, ce \in EmailInputs, msg \in MessageInputs}

DriverAuthors ==
    {<<Bytes("Andrew Hewitt"), Bytes("andrew@caramel-code.com")>>,
     <<Bytes("Andrew Hewitt"), Bytes("old2@caramel-code.com")>>}

DriverCommitters ==
    {<<Bytes("Andrew Hewitt"), Bytes("andrew@caramel-code.com")>>,
     <<Bytes("Jane Doe"), Bytes("jane@example.com")>>}

DriverCommits ==
    {MkCommit(a[1], a[2], c[1], c[2], msg) :
        a \in DriverAuthors, c \in DriverCommitters, msg \in MessageInputs}

-----------------------------------------------------------------------------
(* State machine *)

Ids == DOMAIN commits

\* The call on record c mutates the object its parameter is bound to.
StoreFirst(cs, c, commit) == [cs EXCEPT ![1] = commit]
Store(cs, c, commit) == [cs EXCEPT ![c] = commit]

InitWith(cs) ==
    /\ commits = cs
    /\ pc = [c \in DOMAIN cs |-> "idle"]
    /\ entry = cs
    /\ returned = [c \in DOMAIN cs |-> FALSE]

\* One record, any input.
Init == \E cs \in [{1} -> InputCommits] : InitWith(cs)

\* Several records with well-formed identities.
InitDriver == \E cs \in [1..NumCommits -> DriverCommits] : InitWith(cs)

\* The driver invokes commit_callback on record c.
Call(c) ==
    /\ pc[c] = "idle"
    /\ pc' = [pc EXCEPT ![c] = "L4"]
    /\ entry' = [entry EXCEPT ![c] = commits[c]]
    /\ UNCHANGED <<commits, returned>>

Exec(c, line) ==
    /\ pc[c] = line
    /\ LET s == Statement(line, commits[c]) IN
         /\ pc' = [pc EXCEPT ![c] = s.pc]
         /\ commits' = Store(commits, c, s.commit)
    /\ UNCHANGED <<entry, returned>>

AuthorEmailTest(c) == Exec(c, "L4")
AuthorNameTest(c) == Exec(c, "L5")
SetAuthorEmail(c) == Exec(c, "L6")
SetAuthorName(c) == Exec(c, "L7")
CommitterEmailTest(c) == Exec(c, "L10")
CommitterNameTest(c) == Exec(c, "L11")
SetCommitterEmail(c) == Exec(c, "L12")
SetCommitterName(c) == Exec(c, "L13")

\* The call returns; the driver may invoke the callback on the record again.
Return(c) ==
    /\ pc[c] = "done"
    /\ pc' = [pc EXCEPT ![c] = "idle"]
    /\ returned' = [returned EXCEPT ![c] = TRUE]
    /\ UNCHANGED <<commits, entry>>

Next ==
    \E c \in Ids :
        \/ Call(c)
        \/ AuthorEmailTest(c)
        \/ AuthorNameTest(c)
        \/ SetAuthorEmail(c)
        \/ SetAuthorName(c)
        \/ CommitterEmailTest(c)
        \/ CommitterNameTest(c)
        \/ SetCommitterEmail(c)
        \/ SetCommitterName(c)
        \/ Return(c)

Spec == Init /\ [][Next]_vars

SpecDriver == InitDriver /\ [][Next]_vars

TypeOK ==
    /\ DOMAIN pc = Ids
    /\ \A c \in Ids : pc[c] \in Lines \cup {"idle", "done", "fault"}

-----------------------------------------------------------------------------
(* Vocabulary of the properties *)

IdFields == {"author_name", "author_email", "committer_name", "committer_email"}

Attr(commit, a) == IF a \in DOMAIN commit THEN commit[a] ELSE Absent

Identity(commit) == [a \in IdFields |-> Attr(commit, a)]

AuthorPair(commit) ==
    <<Attr(commit, "author_name"), Attr(commit, "author_email")>>

CommitterPair(commit) ==
    <<Attr(commit, "committer_name"), Attr(commit, "committer_email")>>

LegacyPair == <<Bytes("Andrew Hewitt"), Bytes("andrew@caramel-code.com")>>

CanonicalPair == <<Bytes("GigaElk"), Bytes("gigaelk@gmail.com")>>

\* The call on c has returned normally and the record has not been handed
\* back to the driver yet; entry[c] is the record as the call received it.
Done(c) == pc[c] = "done"

-----------------------------------------------------------------------------
\* C1: a record whose author pair is the legacy pair when commit_callback
\* is called has the canonical author pair when the call returns, whatever
\* its committer fields are.
C1_AuthorRewritten ==
    \A c \in Ids :
        Done(c) /\ AuthorPair(entry[c]) = LegacyPair
            => AuthorPair(commits[c]) = CanonicalPair

C1_Witness ==
    \E c \in Ids :
        /\ Done(c)
        /\ AuthorPair(entry[c]) = LegacyPair
        /\ CommitterPair(entry[c]) = <<None, Bytes("old2@caramel-code.com")>>
        /\ AuthorPair(commits[c]) = CanonicalPair

\* C2: a record whose committer pair is the legacy pair when
\* commit_callback is called has the canonical committer pair when the call
\* returns, whatever its author fields are, also when the author pair was
\* rewritten earlier in the same call.
C2_CommitterRewritten ==
    \A c \in Ids :
        Done(c) /\ CommitterPair(entry[c]) = LegacyPair
            => CommitterPair(commits[c]) = CanonicalPair

C2_Witness ==
    \E c \in Ids :
        /\ Done(c)
        /\ CommitterPair(entry[c]) = LegacyPair
        /\ AuthorPair(entry[c]) = LegacyPair
        /\ AuthorPair(commits[c]) = CanonicalPair
        /\ CommitterPair(commits[c]) = CanonicalPair

\* C3: matching is conjunctive and byte-exact: a pair (author or committer)
\* that is not the complete legacy pair when the call starts (only the name
\* matches, only the email matches, the name differs in case, nothing
\* matches) has the same name and the same email when the call returns.
C3_NonMatchingPairKept ==
    \A c \in Ids :
        Done(c) =>
            /\ AuthorPair(entry[c]) # LegacyPair
                  => AuthorPair(commits[c]) = AuthorPair(entry[c])
            /\ CommitterPair(entry[c]) # LegacyPair
                  => CommitterPair(commits[c]) = CommitterPair(entry[c])

C3_Witness ==
    \E c \in Ids :
        /\ Done(c)
        /\ AuthorPair(entry[c])
             = <<Bytes("andrew hewitt"), Bytes("andrew@caramel-code.com")>>
        /\ CommitterPair(entry[c])
             = <<Bytes("Andrew Hewitt"), Bytes("old2@caramel-code.com")>>
        /\ AuthorPair(commits[c]) = AuthorPair(entry[c])
        /\ CommitterPair(commits[c]) = CommitterPair(entry[c])

\* C4: the two branches are independent: of two finished calls, those that
\* started with the same committer pair end with the same committer pair
\* and those that started with the same author pair end with the same
\* author pair; a matching author pair beside a non-matching committer pair
\* leaves the committer pair untouched, and the other way round.
C4_BranchesIndependent ==
    /\ \A c, d \in Ids :
          Done(c) /\ Done(d) =>
            /\ CommitterPair(entry[c]) = CommitterPair(entry[d])
                  => CommitterPair(commits[c]) = CommitterPair(commits[d])
            /\ AuthorPair(entry[c]) = AuthorPair(entry[d])
                  => AuthorPair(commits[c]) = AuthorPair(commits[d])
    /\ \A c \in Ids :
          Done(c) =>
            /\ AuthorPair(entry[c]) = LegacyPair
                 /\ CommitterPair(entry[c]) # LegacyPair
                  => CommitterPair(commits[c]) = CommitterPair(entry[c])
            /\ CommitterPair(entry[c]) = LegacyPair
                 /\ AuthorPair(entry[c]) # LegacyPair
                  => AuthorPair(commits[c]) = AuthorPair(entry[c])

C4_Witness ==
    \E c, d \in Ids :
        /\ Done(c) /\ Done(d)
        /\ AuthorPair(entry[c]) = LegacyPair
        /\ AuthorPair(entry[d]) # LegacyPair
        /\ CommitterPair(entry[c]) = LegacyPair
        /\ CommitterPair(entry[d]) = LegacyPair
        /\ AuthorPair(commits[c]) = CanonicalPair
        /\ AuthorPair(commits[d]) = AuthorPair(entry[d])
        /\ CommitterPair(commits[c]) = CanonicalPair
        /\ CommitterPair(commits[d]) = CanonicalPair

\* C5: commit_callback is idempotent: throughout a call made on a record
\* that an earlier call has returned, the four identity fields keep the
\* values they had when that later call started.
C5_Idempotent ==
    \A c \in Ids :
        returned[c] /\ pc[c] # "idle"
            => Identity(commits[c]) = Identity(entry[c])

C5_Witness ==
    \E c \in Ids :
        /\ returned[c]
        /\ Done(c)
        /\ AuthorPair(commits[c]) = CanonicalPair
        /\ CommitterPair(commits[c]) = CanonicalPair
        /\ Identity(commits[c]) = Identity(entry[c])

\* C6: the call writes the four identity fields only: at every point the
\* record has exactly the attributes it was passed with, and every
\* attribute other than the four identity fields has the value it was
\* passed with.
C6_OnlyIdentityWritten ==
    \A c \in Ids :
        /\ DOMAIN commits[c] = DOMAIN entry[c]
        /\ \A a \in (DOMAIN entry[c]) \ IdFields : commits[c][a] = entry[c][a]

C6_Witness ==
    \E c \in Ids :
        /\ Done(c)
        /\ AuthorPair(entry[c]) = LegacyPair
        /\ AuthorPair(commits[c]) = CanonicalPair
        /\ commits[c]["message"] = Bytes("Fix login")
        /\ DOMAIN commits[c] = DOMAIN entry[c]

\* C7 as stated: no call ever raises a fault, whatever the record, a record
\* with absent identity fields included.
C7_NeverFaults == \A c \in Ids : pc[c] # "fault"

\* The attribute reads the call makes on the record it was passed: the two
\* emails always, a name only when its email is the legacy email.
ReadsAbsent(commit) ==
    \/ "author_email" \notin DOMAIN commit
    \/ /\ Attr(commit, "author_email") = Bytes("andrew@caramel-code.com")
       /\ "author_name" \notin DOMAIN commit
    \/ "committer_email" \notin DOMAIN commit
    \/ /\ Attr(commit, "committer_email") = Bytes("andrew@caramel-code.com")
       /\ "committer_name" \notin DOMAIN commit

\* C7 amended: the call raises a fault exactly when an attribute it reads is
\* absent from the record; in every other case (empty values, values of
\* another type, None, an absent name beside a non-matching email) it
\* returns, and whether it returns or raises, a pair that was not the
\* legacy pair is left as it was.
C7_FaultsOnlyOnAbsentRead ==
    \A c \in Ids :
        /\ pc[c] = "fault" => ReadsAbsent(entry[c])
        /\ Done(c) => ~ReadsAbsent(entry[c])
        /\ pc[c] \in {"done", "fault"} =>
            /\ AuthorPair(entry[c]) # LegacyPair
                  => AuthorPair(commits[c]) = AuthorPair(entry[c])
            /\ CommitterPair(entry[c]) # LegacyPair
                  => CommitterPair(commits[c]) = CommitterPair(entry[c])

C7_Witness ==
    \E c \in Ids :
        /\ Done(c)
        /\ AuthorPair(entry[c]) = <<Absent, Bytes("")>>
        /\ CommitterPair(entry[c]) = <<Str("Andrew Hewitt"), None>>
        /\ commits[c] = entry[c]

\* C8: calls on distinct records do not interfere: a step of one call
\* leaves every other record as it is, and a call that finishes, however
\* its steps were interleaved with those of other calls, ends where the
\* call run alone on the record it was passed ends, and leaves the record
\* that run leaves.
C8_CallsDoNotInterfere ==
    [][\A c \in Ids :
          /\ pc'[c] = pc[c] => commits'[c] = commits[c]
          /\ pc'[c] \in {"done", "fault"} =>
                [pc |-> pc'[c], commit |-> commits'[c]]
                    = commit_callback(entry'[c])]_vars

C8_Witness ==
    \E c, d \in Ids :
        /\ c # d
        /\ Done(c)
        /\ pc[d] \in {"L7", "L13"}
        /\ AuthorPair(entry[c]) = LegacyPair
        /\ AuthorPair(entry[d]) = LegacyPair
        /\ commits[c] # entry[c]
        /\ commits[d] # entry[d]
        /\ commits[c] = commit_callback(entry[c]).commit

\* C10: the result is a function of the four identity fields alone: two
\* finished calls whose records agreed on the four identity fields at the
\* start agree on them at the end, whatever their other fields are and
\* whatever calls were made before.
C10_DeterminedByIdentity ==
    \A c, d \in Ids :
        Done(c) /\ Done(d) /\ Identity(entry[c]) = Identity(entry[d])
            => Identity(commits[c]) = Identity(commits[d])

C10_Witness ==
    \E c, d \in Ids :
        /\ c # d
        /\ Done(c) /\ Done(d)
        /\ ~returned[c] /\ ~returned[d]
        /\ Identity(entry[c]) = Identity(entry[d])
        /\ AuthorPair(entry[c]) = LegacyPair
        /\ entry[c]["message"] # entry[d]["message"]
        /\ Identity(commits[c]) = Identity(commits[d])
        /\ AuthorPair(commits[c]) = CanonicalPair

\* C9: once a call has returned on a record, neither pair of the record is
\* the complete legacy pair, and within each pair the call changed the name
\* if and only if it changed the email.
C9_NoLegacyPairLeft ==
    \A c \in Ids :
        /\ Done(c) \/ (returned[c] /\ pc[c] = "idle") =>
            /\ AuthorPair(commits[c]) # LegacyPair
            /\ CommitterPair(commits[c]) # LegacyPair
        /\ Done(c) =>
            /\ Attr(commits[c], "author_name") # Attr(entry[c], "author_name")
                 <=> Attr(commits[c], "author_email") # Attr(entry[c], "author_email")
            /\ Attr(commits[c], "committer_name") # Attr(entry[c], "committer_name")
                 <=> Attr(commits[c], "committer_email")
                       # Attr(entry[c], "committer_email")

C9_Witness ==
    \E c \in Ids :
        /\ returned[c]
        /\ pc[c] = "idle"
        /\ AuthorPair(commits[c]) = CanonicalPair
        /\ CommitterPair(commits[c])
             = <<Bytes("Andrew Hewitt"), Bytes("gigaelk@gmail.com")>>

====
